---- MODULE Spec2Model ----
(***************************************************************************)
(* Model of the invite endpoint, src/src/pages/api/invite.ts (GET).        *)
(*                                                                         *)
(* One invocation of GET is a request slot.  The handler suspends only at  *)
(* its awaits (KV.get, KV.delete, fetch + body read, KV.put); the code     *)
(* between two awaits is one atomic action.  The wall clock advances       *)
(* between the steps of a request, so Date.now() taken at line 64 can be   *)
(* older than the time at which a later cache operation takes effect.      *)
(*                                                                         *)
(* Strings are modelled as integers: Null is null/undefined, Empty is the  *)
(* empty string, a positive number is a non-empty string whose decimal     *)
(* digits are its characters (so that startsWith is a real prefix test).   *)
(* Times are milliseconds.                                                 *)
(***************************************************************************)
EXTENDS Integers, Sequences, FiniteSets, TLC

\* ---------------------------------------------------------------- bounds
MaxTicks == 2       \* how often the wall clock advances
NumUuids == 1       \* identifiers in use at one time

\* ---------------------------------------------------- values of the code
Null == -1          \* null / undefined (searchParams.get, headers.get, env)
Empty == 0          \* the empty string ''

ValidityBufferMs == 10000   \* line 81: timeRemaining > 10000
MaxAgeSeconds == 120        \* line 129 / 147: max_age: 120, now + 120 * 1000
MsPerSecond == 1000         \* line 147 / 167

\* JavaScript truthiness of a string-or-null value.
Truthy(v) == v # Null /\ v # Empty

\* s.startsWith(p) on digit strings (Empty is the empty prefix).
StartsWith(s, p) ==
    \/ p = Empty
    \/ /\ s > 0
       /\ p > 0
       /\ \E k \in 0..3 : s \div (10 ^ k) = p

\* Request slots: the invocations of GET that can be in flight together.
Reqs == {1, 2}

\* url.origin of the deployed site, and the header values a caller can send.
AllowedOrigin == 1
Origins == {Null, 1, 2}
Referers == {Null, 13, 23}
Emails == {Null, Empty, 7}
BrowserUA == 5
CurlUA == 6
UserAgents == {Null, BrowserUA, CurlUA}
\* botPatterns.some(pattern => pattern.test(userAgent)), on the sample agents.
MatchesBotPattern(userAgent) == userAgent = CurlUA

\* The identifiers (uuid strings), and the invite codes: as many as the cache
\* entries and the requests can carry at one time, so that a new one is always
\* at hand.
Uuids == 1..NumUuids
Codes == 1..(NumUuids + 2 * Cardinality(Reqs))

\* Statuses the upstream service answers with; response.ok is 200..299.
UpstreamStatuses == {200, 429}
ResponseOk(status) == status >= 200 /\ status <= 299

VARIABLES env, clock, ticks, kv, req, hist

vars == <<env, clock, ticks, kv, req, hist>>

\* ------------------------------------------------------------ data model
\* The absent value of KV.get / no invite built yet.
NoData == [uuid |-> Null, code |-> Empty, expiresAt |-> 0, createdAt |-> 0]

\* Variant: the record is stamped with its expiry as its creation time.
InviteDataCreatedLate(uuid, code, expiresAt, now) ==
    [uuid |-> uuid, code |-> code, expiresAt |-> expiresAt, createdAt |-> expiresAt]
\* inviteData, lines 157-162.
InviteData(uuid, code, expiresAt, now) ==
    [uuid |-> uuid, code |-> code, expiresAt |-> expiresAt, createdAt |-> now]

\* Variant: the expiry is serialised in seconds instead of milliseconds.
JsonStringifySeconds(d) ==
    << <<"uuid", d.uuid>>, <<"code", d.code>>,
       <<"expiresAt", d.expiresAt \div MsPerSecond>>, <<"createdAt", d.createdAt>> >>
\* JSON.stringify(inviteData): the members in the order they were written.
JsonStringify(d) ==
    << <<"uuid", d.uuid>>, <<"code", d.code>>,
       <<"expiresAt", d.expiresAt>>, <<"createdAt", d.createdAt>> >>

\* The member of a serialised object named k (Null when there is none).
JsonMember(s, k) ==
    IF \E i \in 1..Len(s) : s[i][1] = k
    THEN s[CHOOSE i \in 1..Len(s) : s[i][1] = k][2]
    ELSE Null

\* KV.get(key, 'json'): the parsed object.
JsonParse(s) ==
    [uuid |-> JsonMember(s, "uuid"), code |-> JsonMember(s, "code"),
     expiresAt |-> JsonMember(s, "expiresAt"),
     createdAt |-> JsonMember(s, "createdAt")]

\* `discord:invite:${uuid}`
KvKey(uuid) == <<"discord:invite:", uuid>>

\* No response yet.
NoResp ==
    [status |-> 0, uuid |-> Null, code |-> Empty, expiresAt |-> 0,
     cached |-> FALSE, serverTime |-> 0, error |-> "", details |-> FALSE]

\* new Response(JSON.stringify({ error, details? }), { status }).
ErrorResp(status, error, details) ==
    [status |-> status, uuid |-> Null, code |-> Empty, expiresAt |-> 0,
     cached |-> FALSE, serverTime |-> 0, error |-> error, details |-> details]

\* new Response(JSON.stringify({ uuid, code, expiresAt, cached, serverTime }),
\* { status: 200 }).
OkResp(uuid, code, expiresAt, cached, now) ==
    [status |-> 200, uuid |-> uuid, code |-> code, expiresAt |-> expiresAt,
     cached |-> cached, serverTime |-> now, error |-> "", details |-> FALSE]

\* A request slot no invocation is using.  The fields are the locals of GET
\* and the log of the awaited operations (ops).
IdleReq ==
    [pc |-> "idle", now |-> 0, clientUuid |-> Null, uuid |-> Null,
     cachedData |-> NoData, inviteData |-> NoData, upStatus |-> 0,
     ops |-> <<>>, resp |-> NoResp]

\* ------------------------------------------------------- the cache store
\* An entry lives expirationTtl seconds from the moment it was written.
KvExpiration(entry) == entry.writtenAt + entry.expirationTtl * MsPerSecond

\* The entries of store that are still alive at time t.
KvAlive(store, t) ==
    [k \in {j \in DOMAIN store : t < KvExpiration(store[j])} |-> store[k]]

\* KV.get(key, 'json'): the parsed value stored under key (NoData if none).
KvRead(key) ==
    IF key \in DOMAIN KvAlive(kv, clock)
    THEN JsonParse(kv[key].value)
    ELSE NoData

\* KV.put(key, value, { expirationTtl }).
KvWrite(key, value, expirationTtl) ==
    (key :> [value |-> value, expirationTtl |-> expirationTtl, writtenAt |-> clock])
        @@ kv

\* KV.delete(key).
KvRemove(key) == [k \in DOMAIN kv \ {key} |-> kv[k]]

\* ------------------------------------------------------------ GET, pure
\* Line 17: the origin / referer test.
CorsViolation(origin, referer) ==
    \/ Truthy(origin) /\ origin # AllowedOrigin
    \/ Truthy(referer) /\ ~StartsWith(referer, AllowedOrigin)

\* Line 25.
ConfigMissing == ~Truthy(env.token) \/ ~Truthy(env.channel)

\* Lines 80-81.
TimeRemaining(cachedInvite, now) == cachedInvite.expiresAt - now
\* Variants of the validity check with the comparison or the buffer wrong.
IsValidInclusive(cachedInvite, now) ==
    TimeRemaining(cachedInvite, now) >= ValidityBufferMs
IsValidNoBuffer(cachedInvite, now) == TimeRemaining(cachedInvite, now) > 0
IsValidWide(cachedInvite, now) ==
    TimeRemaining(cachedInvite, now) > 2 * ValidityBufferMs
IsValid(cachedInvite, now) == TimeRemaining(cachedInvite, now) > ValidityBufferMs

\* Line 147.
ExpiresAt(now) == now + (MaxAgeSeconds * MsPerSecond)

\* Line 167.
TtlSeconds(expiresAt, now) == (expiresAt - now) \div MsPerSecond

\* Variant: the honeypot test comes before the configuration test.
BoundaryRespHoneypotFirst(origin, referer, email, userAgent) ==
    IF CorsViolation(origin, referer)
    THEN ErrorResp(403, "Forbidden", FALSE)
    ELSE IF Truthy(email)
    THEN ErrorResp(400, "Invalid request", FALSE)
    ELSE IF ConfigMissing
    THEN ErrorResp(500, "Missing Discord bot configuration", FALSE)
    ELSE IF MatchesBotPattern(IF Truthy(userAgent) THEN userAgent ELSE Empty)
    THEN ErrorResp(403, "Invalid request", FALSE)
    ELSE NoResp

\* The response of the synchronous checks of lines 11-62, NoResp when the
\* request passes them all.
BoundaryResp(origin, referer, email, userAgent) ==
    IF CorsViolation(origin, referer)
    THEN ErrorResp(403, "Forbidden", FALSE)
    ELSE IF ConfigMissing
    THEN ErrorResp(500, "Missing Discord bot configuration", FALSE)
    ELSE IF Truthy(email)
    THEN ErrorResp(400, "Invalid request", FALSE)
    ELSE IF MatchesBotPattern(IF Truthy(userAgent) THEN userAgent ELSE Empty)
    THEN ErrorResp(403, "Invalid request", FALSE)
    ELSE NoResp

\* ------------------------------------------------------------------ Init
\* The environment bindings of the deployment (line 7-9): each of the two
\* credentials can be unset, empty or set; the KV binding can be absent.
Init ==
    /\ env \in [token : {Null, Empty, 1}, channel : {Null, Empty, 1}, kv : BOOLEAN]
    /\ clock = 0
    /\ ticks = 0
    /\ kv = [k \in {} |-> NoData]
    /\ req = [r \in Reqs |-> IdleReq]
    /\ hist = [raced |-> {}, puts |-> <<>>]

\* The values of the uuid query parameter a caller can send.
UuidParams == {Null, Empty} \cup Uuids

\* Time passes: by the validity buffer, or by the rest of an invite's life
\* short of two buffers.  The store drops the entries whose TTL has run out.
Delays == {ValidityBufferMs, MaxAgeSeconds * MsPerSecond - 2 * ValidityBufferMs}

\* No invocation is in flight or waiting to be collected.
Serial == \A q \in Reqs : req[q].pc = "idle"

Tick(d) ==
    /\ ticks < MaxTicks
    /\ clock' = clock + d
    /\ ticks' = ticks + 1
    /\ kv' = KvAlive(kv, clock + d)
    /\ UNCHANGED <<env, req, hist>>

\* The identifiers and codes some cache entry or some request still carries.
UsedUuids ==
    {k[2] : k \in DOMAIN kv} \cup {req[r].uuid : r \in Reqs}
UsedCodes ==
    {JsonParse(kv[k].value).code : k \in DOMAIN kv}
        \cup {req[r].cachedData.code : r \in Reqs}
        \cup {req[r].inviteData.code : r \in Reqs}
        \cup {req[r].resp.code : r \in Reqs}

\* crypto.randomUUID(): an identifier nothing else carries (line 113).
CanRandomUuid == Uuids \ UsedUuids # {}
RandomUuid == CHOOSE u \in Uuids \ UsedUuids : \A v \in Uuids \ UsedUuids : u <= v

\* The code of a new invite (unique: true, line 132): one nothing else carries.
CanNewCode == Codes \ UsedCodes # {}
NewCode == CHOOSE c \in Codes \ UsedCodes : \A v \in Codes \ UsedCodes : c <= v

\* A new invocation takes the lowest free slot.
Free(r) == req[r].pc = "idle" /\ \A q \in Reqs : q < r => req[q].pc # "idle"

\* Some headers and query pass the checks of lines 11-62.
CanPass ==
    \E origin \in Origins, referer \in Referers, email \in Emails,
       userAgent \in UserAgents :
        BoundaryResp(origin, referer, email, userAgent) = NoResp

\* ------------------------------------------------------- GET, lines 5-71
\* Variant: the checks of lines 11-62 come after the cache lookup.
RejectAfterLookup(r, origin, referer, email, userAgent) ==
    /\ Free(r)
    /\ BoundaryResp(origin, referer, email, userAgent) # NoResp
    /\ req' = [req EXCEPT ![r] =
                  [IdleReq EXCEPT !.pc = "done",
                                  !.ops = IF env.kv THEN << <<"get", "ok">> >> ELSE <<>>,
                                  !.resp = BoundaryResp(origin, referer, email, userAgent)]]
    /\ UNCHANGED <<env, clock, ticks, kv, hist>>
\* A request answered by the CORS, configuration, honeypot or user-agent check.
Reject(r, origin, referer, email, userAgent) ==
    /\ Free(r)
    /\ BoundaryResp(origin, referer, email, userAgent) # NoResp
    /\ req' = [req EXCEPT ![r] =
                  [IdleReq EXCEPT !.pc = "done",
                                  !.resp = BoundaryResp(origin, referer, email, userAgent)]]
    /\ UNCHANGED <<env, clock, ticks, kv, hist>>

\* A request that passes the checks with an identifier and a cache binding:
\* it takes now (line 64) and suspends in KV.get (line 74).
StartLookup(r, clientUuid) ==
    /\ Free(r)
    /\ CanPass
    /\ Truthy(clientUuid) /\ env.kv
    /\ req' = [req EXCEPT ![r] =
                  [IdleReq EXCEPT !.pc = "get",
                                  !.now = clock,
                                  !.clientUuid = clientUuid,
                                  !.uuid = clientUuid]]
    /\ UNCHANGED <<env, clock, ticks, kv, hist>>

\* Variant: the identifier is generated before the lookup, so that a request
\* without one looks its new identifier up in the cache.
StartIssueLooksUp(r, clientUuid) ==
    /\ Free(r)
    /\ CanPass
    /\ ~(Truthy(clientUuid) /\ env.kv)
    /\ ~Truthy(clientUuid) => CanRandomUuid
    /\ req' = [req EXCEPT ![r] =
                  [IdleReq EXCEPT !.pc = IF env.kv THEN "get" ELSE "fetch",
                                  !.now = clock,
                                  !.clientUuid = clientUuid,
                                  !.uuid = IF Truthy(clientUuid)
                                           THEN clientUuid
                                           ELSE RandomUuid]]
    /\ UNCHANGED <<env, clock, ticks, kv, hist>>

\* A request that passes the checks without an identifier or without a cache
\* binding: it skips the lookup, generates an identifier if it has none
\* (line 112-114) and suspends in fetch (line 120).
StartIssue(r, clientUuid) ==
    /\ Free(r)
    /\ CanPass
    /\ ~(Truthy(clientUuid) /\ env.kv)
    /\ ~Truthy(clientUuid) => CanRandomUuid
    /\ req' = [req EXCEPT ![r] =
                  [IdleReq EXCEPT !.pc = "fetch",
                                  !.now = clock,
                                  !.clientUuid = clientUuid,
                                  !.uuid = IF Truthy(clientUuid)
                                           THEN clientUuid
                                           ELSE RandomUuid]]
    /\ UNCHANGED <<env, clock, ticks, kv, hist>>

\* ----------------------------------------------------- GET, lines 72-109
\* The operation op of the request ended with res.
Logged(r, op, res) == Append(req[r].ops, <<op, res>>)

\* The requests that race with r when r leaves its lookup without a valid
\* record: r and every request for the same identifier that left its lookup
\* the same way and has not stored yet (history, for the statements about
\* overlapping requests).
Racing(r) ==
    LET others == {q \in Reqs \ {r} : /\ req[q].uuid = req[r].uuid
                                      /\ req[q].pc \in {"delete", "fetch", "put"}}
    IN  IF others = {} THEN {} ELSE others \cup {r}

\* Variant: the delete is issued whenever the lookup yields no valid record,
\* also when it yields none at all.
KvGetMissDeletes(r) ==
    LET cachedData == KvRead(KvKey(req[r].uuid))
        now == req[r].now
    IN  /\ req[r].pc = "get"
        /\ req' = [req EXCEPT ![r] =
              IF cachedData # NoData /\ IsValid(cachedData, now)
              THEN [@ EXCEPT !.pc = "done",
                             !.cachedData = cachedData,
                             !.ops = Logged(r, "get", "ok"),
                             !.resp = OkResp(cachedData.uuid, cachedData.code,
                                             cachedData.expiresAt, TRUE, now)]
              ELSE [@ EXCEPT !.pc = "delete",
                             !.cachedData = cachedData,
                             !.ops = Logged(r, "get", "ok")]]
        /\ hist' = IF cachedData # NoData /\ IsValid(cachedData, now)
                   THEN hist
                   ELSE [hist EXCEPT !.raced = @ \cup Racing(r)]
        /\ UNCHANGED <<env, clock, ticks, kv>>
\* Variant: the validity check is missing, every record found is replaced.
KvGetAlwaysRefreshes(r) ==
    LET cachedData == KvRead(KvKey(req[r].uuid))
    IN  /\ req[r].pc = "get"
        /\ req' = [req EXCEPT ![r] =
              IF cachedData # NoData
              THEN [@ EXCEPT !.pc = "delete",
                             !.cachedData = cachedData,
                             !.ops = Logged(r, "get", "ok")]
              ELSE [@ EXCEPT !.pc = "fetch",
                             !.ops = Logged(r, "get", "ok")]]
        /\ hist' = [hist EXCEPT !.raced = @ \cup Racing(r)]
        /\ UNCHANGED <<env, clock, ticks, kv>>
\* KV.get returns: a valid record is answered from the cache, a stale one
\* goes on to KV.delete, none goes on to fetch.
KvGet(r) ==
    LET cachedData == KvRead(KvKey(req[r].uuid))
        now == req[r].now
    IN  /\ req[r].pc = "get"
        /\ req' = [req EXCEPT ![r] =
              IF cachedData # NoData
              THEN IF IsValid(cachedData, now)
                   THEN [@ EXCEPT !.pc = "done",
                                  !.cachedData = cachedData,
                                  !.ops = Logged(r, "get", "ok"),
                                  !.resp = OkResp(cachedData.uuid, cachedData.code,
                                                  cachedData.expiresAt, TRUE, now)]
                   ELSE [@ EXCEPT !.pc = "delete",
                                  !.cachedData = cachedData,
                                  !.ops = Logged(r, "get", "ok")]
              ELSE [@ EXCEPT !.pc = "fetch",
                             !.ops = Logged(r, "get", "ok")]]
        /\ hist' = IF cachedData # NoData /\ IsValid(cachedData, now)
                   THEN hist
                   ELSE [hist EXCEPT !.raced = @ \cup Racing(r)]
        /\ UNCHANGED <<env, clock, ticks, kv>>

\* KV.get throws (store unavailable, value not JSON): caught at line 106.
KvGetThrows(r) ==
    /\ req[r].pc = "get"
    /\ req' = [req EXCEPT ![r].pc = "fetch", ![r].ops = Logged(r, "get", "throw")]
    /\ hist' = [hist EXCEPT !.raced = @ \cup Racing(r)]
    /\ UNCHANGED <<env, clock, ticks, kv>>

\* Variant: the delete is logged but leaves the entry in the store.
KvDeleteKeepsEntry(r) ==
    /\ req[r].pc = "delete"
    /\ req' = [req EXCEPT ![r].pc = "fetch", ![r].ops = Logged(r, "delete", "ok")]
    /\ UNCHANGED <<env, clock, ticks, kv, hist>>

\* KV.delete(kvKey) returns (line 99).
KvDelete(r) ==
    /\ req[r].pc = "delete"
    /\ kv' = KvRemove(KvKey(req[r].uuid))
    /\ req' = [req EXCEPT ![r].pc = "fetch", ![r].ops = Logged(r, "delete", "ok")]
    /\ UNCHANGED <<env, clock, ticks, hist>>

\* KV.delete throws: caught at line 101.
KvDeleteThrows(r) ==
    /\ req[r].pc = "delete"
    /\ req' = [req EXCEPT ![r].pc = "fetch", ![r].ops = Logged(r, "delete", "throw")]
    /\ UNCHANGED <<env, clock, ticks, kv, hist>>

\* ---------------------------------------------------- GET, lines 116-194
\* The generic answer of the catch block, lines 188-193.
InternalError == ErrorResp(500, "Internal server error", FALSE)

\* Variant: a fetch that rejects is tried once more before the request gives up.
FetchThrowsRetries(r) ==
    /\ req[r].pc = "fetch"
    /\ req' = [req EXCEPT ![r] =
          IF req[r].ops = <<>> \/ req[r].ops[Len(req[r].ops)][1] # "fetch"
          THEN [@ EXCEPT !.ops = Logged(r, "fetch", "throw")]
          ELSE [@ EXCEPT !.pc = "done",
                         !.ops = Logged(r, "fetch", "throw"),
                         !.resp = InternalError]]
    /\ UNCHANGED <<env, clock, ticks, kv, hist>>
\* fetch rejects (network error): caught at line 188.
FetchThrows(r) ==
    /\ req[r].pc = "fetch"
    /\ req' = [req EXCEPT ![r].pc = "done",
                          ![r].ops = Logged(r, "fetch", "throw"),
                          ![r].resp = InternalError]
    /\ UNCHANGED <<env, clock, ticks, kv, hist>>

\* Variant: an upstream failure is answered with a fixed status 500.
FetchNotOkAs500(r, status) ==
    /\ req[r].pc = "fetch"
    /\ ~ResponseOk(status)
    /\ req' = [req EXCEPT ![r].pc = "done",
                          ![r].upStatus = status,
                          ![r].ops = Logged(r, "fetch", "status"),
                          ![r].resp = ErrorResp(500, "Failed to generate invite", TRUE)]
    /\ UNCHANGED <<env, clock, ticks, kv, hist>>

\* The upstream answers with a non-success status and its body is read
\* (lines 137-144).
FetchNotOk(r, status) ==
    /\ req[r].pc = "fetch"
    /\ ~ResponseOk(status)
    /\ req' = [req EXCEPT ![r].pc = "done",
                          ![r].upStatus = status,
                          ![r].ops = Logged(r, "fetch", "status"),
                          ![r].resp = ErrorResp(status, "Failed to generate invite", TRUE)]
    /\ UNCHANGED <<env, clock, ticks, kv, hist>>

\* The upstream answers with a non-success status and reading its body
\* (await response.text(), line 138) rejects: caught at line 188.
FetchNotOkTextThrows(r, status) ==
    /\ req[r].pc = "fetch"
    /\ ~ResponseOk(status)
    /\ req' = [req EXCEPT ![r].pc = "done",
                          ![r].upStatus = status,
                          ![r].ops = Logged(r, "fetch", "textthrow"),
                          ![r].resp = InternalError]
    /\ UNCHANGED <<env, clock, ticks, kv, hist>>

\* Variant: the message of the parse error is passed on to the caller.
FetchOkJsonThrowsLeaks(r, status) ==
    /\ req[r].pc = "fetch"
    /\ ResponseOk(status)
    /\ req' = [req EXCEPT ![r].pc = "done",
                          ![r].upStatus = status,
                          ![r].ops = Logged(r, "fetch", "jsonthrow"),
                          ![r].resp = ErrorResp(500, "Internal server error", TRUE)]
    /\ UNCHANGED <<env, clock, ticks, kv, hist>>
\* The upstream answers with a success status and a body that is not JSON
\* (await response.json(), line 146, rejects): caught at line 188.
FetchOkJsonThrows(r, status) ==
    /\ req[r].pc = "fetch"
    /\ ResponseOk(status)
    /\ req' = [req EXCEPT ![r].pc = "done",
                          ![r].upStatus = status,
                          ![r].ops = Logged(r, "fetch", "jsonthrow"),
                          ![r].resp = InternalError]
    /\ UNCHANGED <<env, clock, ticks, kv, hist>>

\* Variant: the test of data.code is missing and the invite is built with
\* whatever the body holds.
FetchOkNoCodeIssues(r, status, code) ==
    LET now == req[r].now
        inviteData == InviteData(req[r].uuid, code, ExpiresAt(now), now)
    IN  /\ req[r].pc = "fetch"
        /\ ResponseOk(status)
        /\ ~Truthy(code)
        /\ req' = [req EXCEPT ![r] =
              IF env.kv
              THEN [@ EXCEPT !.pc = "put",
                             !.upStatus = status,
                             !.inviteData = inviteData,
                             !.ops = Logged(r, "fetch", IF code = Null THEN "nocode" ELSE "emptycode")]
              ELSE [@ EXCEPT !.pc = "done",
                             !.upStatus = status,
                             !.inviteData = inviteData,
                             !.ops = Logged(r, "fetch", IF code = Null THEN "nocode" ELSE "emptycode"),
                             !.resp = OkResp(req[r].uuid, code, ExpiresAt(now), FALSE, now)]]
        /\ UNCHANGED <<env, clock, ticks, kv, hist>>

\* The upstream answers with a success status and a JSON body without a code
\* (code is Null) or with an empty one (lines 149-155).
FetchOkNoCode(r, status, code) ==
    /\ req[r].pc = "fetch"
    /\ ResponseOk(status)
    /\ ~Truthy(code)
    /\ req' = [req EXCEPT ![r].pc = "done",
                          ![r].upStatus = status,
                          ![r].ops = Logged(r, "fetch", IF code = Null THEN "nocode" ELSE "emptycode"),
                          ![r].resp = ErrorResp(500, "Invalid response from Discord API", FALSE)]
    /\ UNCHANGED <<env, clock, ticks, kv, hist>>

\* The upstream answers with a success status and a new code: the invite is
\* built (lines 147-162); with a cache binding the request suspends in KV.put,
\* without one it answers (lines 176-187).
FetchOk(r, status) ==
    LET now == req[r].now
        expiresAt == ExpiresAt(now)
        inviteData == InviteData(req[r].uuid, NewCode, expiresAt, now)
    IN  /\ req[r].pc = "fetch"
        /\ ResponseOk(status)
        /\ CanNewCode
        /\ req' = [req EXCEPT ![r] =
              IF env.kv
              THEN [@ EXCEPT !.pc = "put",
                             !.upStatus = status,
                             !.inviteData = inviteData,
                             !.ops = Logged(r, "fetch", "ok")]
              ELSE [@ EXCEPT !.pc = "done",
                             !.upStatus = status,
                             !.inviteData = inviteData,
                             !.ops = Logged(r, "fetch", "ok"),
                             !.resp = OkResp(req[r].uuid, inviteData.code, expiresAt,
                                             FALSE, now)]]
        /\ UNCHANGED <<env, clock, ticks, kv, hist>>

\* The answer of lines 178-187 for the invite the request built.
FreshResp(r) ==
    OkResp(req[r].uuid, req[r].inviteData.code, req[r].inviteData.expiresAt,
           FALSE, req[r].now)

\* Variant: the put leaves an entry that is already there as it is.
KvPutKeepsExisting(r) ==
    LET inviteData == req[r].inviteData
        ttlSeconds == TtlSeconds(inviteData.expiresAt, req[r].now)
    IN  /\ req[r].pc = "put"
        /\ kv' = IF KvKey(req[r].uuid) \in DOMAIN kv
                 THEN kv
                 ELSE KvWrite(KvKey(req[r].uuid), JsonStringify(inviteData), ttlSeconds)
        /\ req' = [req EXCEPT ![r].pc = "done",
                              ![r].ops = Logged(r, "put", "ok"),
                              ![r].resp = FreshResp(r)]
        /\ hist' = [hist EXCEPT !.puts = Append(@, r)]
        /\ UNCHANGED <<env, clock, ticks>>

\* Variant: the entry is stored under the identifier the caller sent, not
\* under the one the request uses.
KvPutUnderClientUuid(r) ==
    LET inviteData == req[r].inviteData
        ttlSeconds == TtlSeconds(inviteData.expiresAt, req[r].now)
    IN  /\ req[r].pc = "put"
        /\ kv' = KvWrite(KvKey(req[r].clientUuid), JsonStringify(inviteData), ttlSeconds)
        /\ req' = [req EXCEPT ![r].pc = "done",
                              ![r].ops = Logged(r, "put", "ok"),
                              ![r].resp = FreshResp(r)]
        /\ hist' = [hist EXCEPT !.puts = Append(@, r)]
        /\ UNCHANGED <<env, clock, ticks>>
\* KV.put returns (line 169), then the answer.
KvPut(r) ==
    LET inviteData == req[r].inviteData
        ttlSeconds == TtlSeconds(inviteData.expiresAt, req[r].now)
    IN  /\ req[r].pc = "put"
        /\ kv' = KvWrite(KvKey(req[r].uuid), JsonStringify(inviteData), ttlSeconds)
        /\ req' = [req EXCEPT ![r].pc = "done",
                              ![r].ops = Logged(r, "put", "ok"),
                              ![r].resp = FreshResp(r)]
        /\ hist' = [hist EXCEPT !.puts = Append(@, r)]
        /\ UNCHANGED <<env, clock, ticks>>

\* Variant: a failing put is not caught locally and ends in the outer catch.
KvPutThrowsFails(r) ==
    /\ req[r].pc = "put"
    /\ req' = [req EXCEPT ![r].pc = "done",
                          ![r].ops = Logged(r, "put", "throw"),
                          ![r].resp = InternalError]
    /\ UNCHANGED <<env, clock, ticks, kv, hist>>

\* Variant: a put that fails is waited for without end, the request never
\* answers.
KvPutThrowsHangs(r) ==
    /\ req[r].pc = "put"
    /\ req' = [req EXCEPT ![r].pc = "hung",
                          ![r].ops = Logged(r, "put", "throw")]
    /\ UNCHANGED <<env, clock, ticks, kv, hist>>
\* KV.put throws: caught at line 171, then the answer.
KvPutThrows(r) ==
    /\ req[r].pc = "put"
    /\ req' = [req EXCEPT ![r].pc = "done",
                          ![r].ops = Logged(r, "put", "throw"),
                          ![r].resp = FreshResp(r)]
    /\ UNCHANGED <<env, clock, ticks, kv, hist>>

\* The invocation is over and its slot serves the next request.
Retire(r) ==
    /\ req[r].pc = "done"
    /\ req' = [req EXCEPT ![r] = IdleReq]
    /\ hist' = [raced |-> hist.raced \ {r},
                puts |-> SelectSeq(hist.puts, LAMBDA q : q # r)]
    /\ UNCHANGED <<env, clock, ticks, kv>>

\* ------------------------------------------------------------------ Next
\* The steps of a request that is in flight, whatever its faults.
Step(r) ==
    \/ KvGet(r)
    \/ KvGetThrows(r)
    \/ KvDelete(r)
    \/ KvDeleteThrows(r)
    \/ FetchThrows(r)
    \/ \E status \in UpstreamStatuses : FetchNotOk(r, status)
    \/ \E status \in UpstreamStatuses : FetchNotOkTextThrows(r, status)
    \/ \E status \in UpstreamStatuses : FetchOkJsonThrows(r, status)
    \/ \E status \in UpstreamStatuses, code \in {Null, Empty} :
            FetchOkNoCode(r, status, code)
    \/ \E status \in UpstreamStatuses : FetchOk(r, status)
    \/ KvPut(r)
    \/ KvPutThrows(r)
    \/ Retire(r)

\* Invocations one after the other, under every deployment.
Next ==
    \/ \E d \in Delays : Tick(d)
    \/ \E r \in Reqs, origin \in Origins, referer \in Referers,
          email \in Emails, userAgent \in UserAgents :
            Serial /\ Reject(r, origin, referer, email, userAgent)
    \/ \E r \in Reqs, clientUuid \in UuidParams : Serial /\ StartLookup(r, clientUuid)
    \/ \E r \in Reqs, clientUuid \in UuidParams : Serial /\ StartIssue(r, clientUuid)
    \/ \E r \in Reqs : Step(r)

Spec == Init /\ [][Next]_vars

\* Overlapping invocations for one identifier, under a deployment with its
\* credentials and its cache binding, of requests that pass the checks of
\* lines 11-62; the upstream issues a code or cannot be reached.
RaceUuid == CHOOSE u \in Uuids : \A v \in Uuids : u <= v

InitRace == Init /\ ~ConfigMissing /\ env.kv

NextRace ==
    \/ \E d \in Delays : Tick(d)
    \/ \E r \in Reqs : StartLookup(r, RaceUuid)
    \/ \E r \in Reqs : KvGet(r)
    \/ \E r \in Reqs : KvDelete(r)
    \/ \E r \in Reqs : KvDeleteThrows(r)
    \/ \E r \in Reqs : FetchThrows(r)
    \/ \E r \in Reqs, status \in UpstreamStatuses : FetchOk(r, status)
    \/ \E r \in Reqs : KvPut(r)
    \/ \E r \in Reqs : KvPutThrows(r)
    \/ \E r \in Reqs : Retire(r)

SpecRace == InitRace /\ [][NextRace]_vars

\* =================================================================
\* Properties
\* =================================================================
\* The request performed the operation op / performed it with result res.
Did(r, op) == \E i \in 1..Len(req[r].ops) : req[r].ops[i][1] = op
DidWith(r, op, res) == \E i \in 1..Len(req[r].ops) : req[r].ops[i] = <<op, res>>

\* The request has answered.
Done(r) == req[r].pc = "done"

\* The request read a record from the cache that fails the validity check.
ReadStale(r) ==
    /\ req[r].cachedData # NoData
    /\ req[r].cachedData.expiresAt - req[r].now <= ValidityBufferMs

\* ---------------------------------------------------------------- C2
\* C2: every answer served from the cache (cached = true) has
\* expiresAt - now > 10,000 ms, now being the request's own time; a request
\* that read a record with 10,000 ms or less remaining never answers from the
\* cache: it goes on to the issuance (delete, then fetch).
C2_CachedOnlyWhenValid ==
    \A r \in Reqs :
        /\ req[r].resp.cached =>
              req[r].resp.expiresAt - req[r].now > ValidityBufferMs
        /\ ReadStale(r) =>
              /\ ~req[r].resp.cached
              /\ req[r].pc \in {"delete", "fetch", "put", "done"}
              /\ Done(r) => Did(r, "fetch")

\* A request that read a record with exactly 10,000 ms left and went on to
\* the upstream call.
C2_Witness ==
    \E r \in Reqs :
        /\ Done(r)
        /\ req[r].cachedData # NoData
        /\ req[r].cachedData.expiresAt - req[r].now = ValidityBufferMs
        /\ Did(r, "fetch")

\* ---------------------------------------------------------------- C3
\* C3: a request that answers 200 after reading from the cache a record with
\* 10,000 ms or less remaining returns a code different from that record's
\* code and an expiresAt strictly later than that record's expiresAt.
C3_Reissue ==
    \A r \in Reqs :
        (Done(r) /\ req[r].resp.status = 200 /\ ReadStale(r)) =>
            /\ req[r].resp.code # req[r].cachedData.code
            /\ req[r].resp.expiresAt > req[r].cachedData.expiresAt

C3_Witness ==
    \E r \in Reqs :
        /\ Done(r) /\ req[r].resp.status = 200 /\ ReadStale(r)
        /\ req[r].resp.expiresAt > req[r].cachedData.expiresAt

\* ---------------------------------------------------------------- C4
\* C4 as claimed: after a request that read a record with 10,000 ms or less
\* remaining, that record is no longer in the cache under the identifier,
\* whatever the outcome of the issuance.
C4_Original ==
    \A r \in Reqs :
        (Done(r) /\ ReadStale(r)) =>
            KvRead(KvKey(req[r].uuid)) # req[r].cachedData

\* C4 amended: after a request that read a record with 10,000 ms or less
\* remaining and whose cache delete returned (or whose cache put returned),
\* that record is no longer in the cache under the identifier, whatever the
\* outcome of the issuance.
C4_StaleRemoved ==
    \A r \in Reqs :
        (/\ Done(r)
         /\ ReadStale(r)
         /\ DidWith(r, "delete", "ok") \/ DidWith(r, "put", "ok")) =>
            KvRead(KvKey(req[r].uuid)) # req[r].cachedData

\* The stale record was deleted and the issuance failed: the cache holds
\* nothing under the identifier.
C4_Witness ==
    \E r \in Reqs :
        /\ Done(r) /\ ReadStale(r)
        /\ DidWith(r, "delete", "ok")
        /\ req[r].resp.status # 200
        /\ clock < req[r].cachedData.expiresAt
        /\ KvRead(KvKey(req[r].uuid)) = NoData

\* ---------------------------------------------------------------- C5
\* The upstream answered the request with a non-success status.
UpstreamNotOk(r) == req[r].upStatus # 0 /\ ~ResponseOk(req[r].upStatus)

\* C5 as claimed: if the upstream returns a non-success status, the request
\* answers with that status and performs no cache put.
C5_Original ==
    \A r \in Reqs :
        (Done(r) /\ UpstreamNotOk(r)) =>
            /\ req[r].resp.status = req[r].upStatus
            /\ ~Did(r, "put")

\* C5 amended: if the upstream returns a non-success status, the request
\* performs no cache put; it answers with that status (and the upstream body
\* as details) when the error body was read, and with the generic 500 when
\* reading the error body failed.
C5_UpstreamFailure ==
    \A r \in Reqs :
        (Done(r) /\ UpstreamNotOk(r)) =>
            /\ ~Did(r, "put")
            /\ DidWith(r, "fetch", "status") =>
                  /\ req[r].resp.status = req[r].upStatus
                  /\ req[r].resp.details
            /\ DidWith(r, "fetch", "textthrow") =>
                  /\ req[r].resp.status = 500
                  /\ ~req[r].resp.details
            /\ DidWith(r, "fetch", "status") \/ DidWith(r, "fetch", "textthrow")

\* A request with a cache binding, answered with the upstream's 429.
C5_Witness ==
    \E r \in Reqs :
        /\ Done(r) /\ UpstreamNotOk(r) /\ env.kv
        /\ DidWith(r, "fetch", "status")
        /\ req[r].resp.status = 429

\* ---------------------------------------------------------------- C6
\* C6: if the upstream returns a success status and a body whose code is
\* missing or empty, the request answers 500 and performs no cache put.
C6_MalformedUpstream ==
    \A r \in Reqs :
        (Done(r) /\ (DidWith(r, "fetch", "nocode") \/ DidWith(r, "fetch", "emptycode"))) =>
            /\ ResponseOk(req[r].upStatus)
            /\ req[r].resp.status = 500
            /\ ~Did(r, "put")
            /\ \/ KvRead(KvKey(req[r].uuid)) = NoData
               \/ Truthy(KvRead(KvKey(req[r].uuid)).code)

C6_Witness ==
    \E r \in Reqs :
        /\ Done(r) /\ env.kv
        /\ DidWith(r, "fetch", "emptycode")
        /\ req[r].resp.status = 500

\* ---------------------------------------------------------------- C7
\* A cache operation of the request failed, or there is no cache binding.
CacheFault(r) ==
    \/ ~env.kv
    \/ DidWith(r, "get", "throw")
    \/ DidWith(r, "delete", "throw")
    \/ DidWith(r, "put", "throw")

\* C7: if a cache operation of the request fails or the binding is absent,
\* and the upstream call succeeds with a code, the request answers 200 with
\* the new record (cached = false, expiresAt = now + 120,000); a request with
\* a cache fault answers with an error only when its upstream call failed.
C7_CacheOutage ==
    \A r \in Reqs :
        (Done(r) /\ CacheFault(r)) =>
            /\ DidWith(r, "fetch", "ok") =>
                  /\ req[r].resp.status = 200
                  /\ ~req[r].resp.cached
                  /\ Truthy(req[r].resp.code)
                  /\ req[r].resp.uuid = req[r].uuid
                  /\ req[r].resp.expiresAt = req[r].now + 120000
            /\ (req[r].ops # <<>> /\ req[r].resp.status # 200) =>
                  Did(r, "fetch") /\ ~DidWith(r, "fetch", "ok")

\* Every cache operation of the request failed and it still answered 200.
C7_Witness ==
    \E r \in Reqs :
        /\ Done(r)
        /\ DidWith(r, "get", "throw")
        /\ DidWith(r, "put", "throw")
        /\ req[r].resp.status = 200

\* ---------------------------------------------------------------- C8
\* C8: a request without an identifier (uuid absent or empty) performs no
\* cache get and no cache delete, goes to the issuance with a generated
\* identifier, and never answers cached = true.
C8_FreshIdentifier ==
    \A r \in Reqs :
        (req[r].pc # "idle" /\ ~Truthy(req[r].clientUuid)) =>
            /\ req[r].pc \notin {"get", "delete"}
            /\ ~Did(r, "get") /\ ~Did(r, "delete")
            /\ ~req[r].resp.cached
            /\ req[r].cachedData = NoData
            /\ (req[r].pc \in {"fetch", "put"} \/ req[r].ops # <<>>) =>
                  /\ Truthy(req[r].uuid)
                  /\ req[r].ops # <<>> => req[r].ops[1][1] = "fetch"
            /\ req[r].resp.status = 200 => req[r].resp.uuid = req[r].uuid

\* A request with an empty uuid parameter, under a cache binding, answered 200.
C8_Witness ==
    \E r \in Reqs :
        /\ Done(r) /\ env.kv
        /\ req[r].clientUuid = Empty
        /\ req[r].resp.status = 200
        /\ Truthy(req[r].resp.uuid)

\* --------------------------------------------------------------- C10
\* C10 as claimed: whenever the bot token or the channel id is absent, every
\* request is answered with status 500.
C10_Original ==
    \A r \in Reqs : (ConfigMissing /\ Done(r)) => req[r].resp.status = 500

\* C10 amended: whenever the bot token or the channel id is absent, every
\* request that passes the CORS check is answered with status 500, whatever
\* its other headers and query parameters (a request that fails the CORS
\* check is answered 403 first); no request performs a cache operation or an
\* upstream call.
C10_ConfigError ==
    [][ConfigMissing =>
        \A r \in Reqs :
            /\ req'[r].pc \in {"idle", "done"}
            /\ req'[r].ops = <<>>
            /\ kv' = kv
            /\ \A origin \in Origins, referer \in Referers,
                  email \in Emails, userAgent \in UserAgents :
                    Reject(r, origin, referer, email, userAgent) =>
                        req'[r].resp.status =
                            IF CorsViolation(origin, referer) THEN 403 ELSE 500]_vars

\* Without a channel id, a request was answered with the configuration error.
C10_Witness ==
    \E r \in Reqs :
        /\ ~Truthy(env.channel) /\ Truthy(env.token)
        /\ Done(r)
        /\ req[r].resp = ErrorResp(500, "Missing Discord bot configuration", FALSE)

\* ---------------------------------------------------------------- C1
\* The span within which a record issued at its request's now passes the
\* validity check: 120 s minus the 10 s buffer.
ValidityWindowMs == MaxAgeSeconds * MsPerSecond - ValidityBufferMs

\* C1 as claimed: two requests with the same caller-supplied identifier whose
\* times are less than 110,000 ms apart return the identical code and the
\* identical expiresAt.  Stated here for the most favourable case only: the
\* two requests do not race, none of their cache operations fails, and the
\* cache lookup of the second returned the very record the first answered
\* with.
C1_Original ==
    \A a, b \in Reqs :
        (/\ a # b
         /\ Done(a) /\ Done(b)
         /\ ~({a, b} \subseteq hist.raced)
         /\ ~CacheFault(a) /\ ~CacheFault(b)
         /\ req[b].cachedData.code = req[a].resp.code
         /\ req[b].cachedData.expiresAt = req[a].resp.expiresAt
         /\ req[a].resp.status = 200 /\ req[b].resp.status = 200
         /\ Truthy(req[a].clientUuid)
         /\ req[a].clientUuid = req[b].clientUuid
         /\ req[b].now - req[a].now < ValidityWindowMs
         /\ req[a].now - req[b].now < ValidityWindowMs) =>
            /\ req[b].resp.code = req[a].resp.code
            /\ req[b].resp.expiresAt = req[a].resp.expiresAt

\* C1 amended: when a request issued a record for an identifier (200,
\* cached = false) and the cache lookup of another request with that
\* identifier returns this record, the other request's time being less than
\* 110,000 ms after the issuing request's, the other request returns the
\* identical code and the identical expiresAt (cached = true).
C1_Idempotent ==
    \A a, b \in Reqs :
        (/\ a # b
         /\ Done(a) /\ Done(b)
         /\ req[a].resp.status = 200 /\ ~req[a].resp.cached
         /\ Truthy(req[b].clientUuid)
         /\ req[b].clientUuid = req[a].uuid
         /\ req[b].cachedData = req[a].inviteData
         /\ req[b].now - req[a].now < ValidityWindowMs) =>
            /\ req[b].resp.status = 200
            /\ req[b].resp.cached
            /\ req[b].resp.code = req[a].resp.code
            /\ req[b].resp.expiresAt = req[a].resp.expiresAt

\* A request served 100,000 ms after the issuing one with the issued record.
C1_Witness ==
    \E a, b \in Reqs :
        /\ a # b
        /\ Done(a) /\ Done(b)
        /\ req[a].resp.status = 200 /\ ~req[a].resp.cached
        /\ req[b].cachedData = req[a].inviteData
        /\ req[b].now - req[a].now = ValidityWindowMs - ValidityBufferMs
        /\ req[b].resp.cached
        /\ req[b].resp.code = req[a].resp.code

\* ---------------------------------------------------------------- C9
\* Two requests for one identifier that both left the cache lookup without a
\* valid record before either stored, and that have both answered.
RacedPair(a, b) ==
    /\ a # b
    /\ {a, b} \subseteq hist.raced
    /\ req[a].uuid = req[b].uuid
    /\ Done(a) /\ Done(b)

\* The cache holds under the identifier of r exactly the record r built.
CacheHoldsRecordOf(r) ==
    /\ KvKey(req[r].uuid) \in DOMAIN kv
    /\ kv[KvKey(req[r].uuid)].value = JsonStringify(req[r].inviteData)
    /\ \A k \in DOMAIN kv : k[2] = req[r].uuid => k = KvKey(req[r].uuid)

\* C9 as claimed: two racing requests each answer 200 with a code of their
\* own, and once both have answered the cache holds under the identifier
\* exactly one record, the one written by the later put.  Stated here for
\* the most favourable case only: the upstream call of both succeeded.
C9_Original ==
    \A a, b \in Reqs :
        (RacedPair(a, b) /\ DidWith(a, "fetch", "ok") /\ DidWith(b, "fetch", "ok")) =>
            /\ req[a].resp.status = 200 /\ req[b].resp.status = 200
            /\ req[a].resp.code # req[b].resp.code
            /\ hist.puts # <<>>
            /\ CacheHoldsRecordOf(hist.puts[Len(hist.puts)])

\* C9 amended: of two racing requests, each one whose upstream call succeeds
\* with a code answers 200 with a code of its own (cached = false); and when
\* the cache put of both returned, then once both have answered and until the
\* TTL of the entry runs out, the cache holds under the identifier exactly
\* one record, the one written by the later put.
C9_LastWriterWins ==
    \A a, b \in Reqs :
        RacedPair(a, b) =>
            /\ DidWith(a, "fetch", "ok") =>
                  /\ req[a].resp.status = 200
                  /\ ~req[a].resp.cached
                  /\ req[a].resp.code = req[a].inviteData.code
                  /\ req[a].resp.code # req[b].resp.code
            /\ (/\ DidWith(a, "put", "ok") /\ DidWith(b, "put", "ok")
                /\ hist.puts # <<>>
                /\ hist.puts[Len(hist.puts)] = a) =>
                  /\ Len(hist.puts) = 2
                  /\ clock < ExpiresAt(req[a].now) => CacheHoldsRecordOf(a)
                  /\ KvKey(req[a].uuid) \in DOMAIN kv => CacheHoldsRecordOf(a)

\* Both racing requests found the same stale record, both stored, and the
\* cache holds the record of the one that stored last.
C9_Witness ==
    \E a, b \in Reqs :
        /\ RacedPair(a, b)
        /\ ReadStale(a) /\ req[b].cachedData = req[a].cachedData
        /\ hist.puts = <<b, a>>
        /\ CacheHoldsRecordOf(a)
        /\ req[a].resp.code # req[b].resp.code

\* --------------------------------------------------------------- C11
\* The records the cache holds, parsed.
CachedRecords == {JsonParse(kv[k].value) : k \in DOMAIN kv}

\* C11: every record written to the cache or returned as freshly issued has
\* expiresAt = createdAt + 120,000 ms, createdAt being the issuing request's
\* now; hence every record in the cache has expiresAt > createdAt.
C11_RecordInvariant ==
    /\ \A d \in CachedRecords :
          /\ d.expiresAt = d.createdAt + 120000
          /\ d.expiresAt > d.createdAt
    /\ \A r \in Reqs :
          /\ req[r].inviteData # NoData =>
                /\ req[r].inviteData.createdAt = req[r].now
                /\ req[r].inviteData.expiresAt = req[r].inviteData.createdAt + 120000
          /\ (req[r].resp.status = 200 /\ ~req[r].resp.cached) =>
                /\ req[r].resp.expiresAt = req[r].inviteData.expiresAt
                /\ req[r].resp.expiresAt > req[r].inviteData.createdAt
          /\ DidWith(r, "put", "ok") =>
                /\ req[r].inviteData # NoData
                /\ KvRead(KvKey(req[r].uuid)).code = req[r].inviteData.code =>
                      KvRead(KvKey(req[r].uuid)).createdAt = req[r].now

\* A request that started after the clock had advanced stored its record and
\* answered with it.
C11_Witness ==
    \E r \in Reqs :
        /\ Done(r) /\ DidWith(r, "put", "ok")
        /\ req[r].now > 0
        /\ req[r].resp.status = 200 /\ ~req[r].resp.cached
        /\ req[r].inviteData \in CachedRecords

\* --------------------------------------------------------------- C12
\* How many times the request performed the operation op.
NumOps(r, op) == Cardinality({i \in 1..Len(req[r].ops) : req[r].ops[i][1] = op})

\* The request was answered by one of the checks of lines 11-62.
BoundaryRejected(r) ==
    /\ Done(r)
    /\ req[r].resp.error \in
          {"Forbidden", "Missing Discord bot configuration", "Invalid request"}

\* C12: a request makes at most one upstream call; a request served from the
\* cache makes none; every other request that passed the boundary and
\* configuration checks has made exactly one when it answers, and a failed
\* call is the last operation of its request; a 200 answer has cached = false
\* exactly when the request made a successful upstream call.
C12_OneUpstreamCall ==
    \A r \in Reqs :
        /\ NumOps(r, "fetch") <= 1
        /\ req[r].resp.cached => NumOps(r, "fetch") = 0
        /\ (Done(r) /\ ~req[r].resp.cached /\ ~BoundaryRejected(r)) =>
              NumOps(r, "fetch") = 1
        /\ (Done(r) /\ req[r].resp.status = 200) =>
              (~req[r].resp.cached <=> DidWith(r, "fetch", "ok"))
        /\ (Did(r, "fetch") /\ ~DidWith(r, "fetch", "ok")) =>
              /\ Done(r)
              /\ req[r].ops[Len(req[r].ops)][1] = "fetch"
              /\ req[r].resp.status # 200

\* A request whose lookup found nothing and whose upstream call could not be
\* made answered after that one call.
C12_Witness ==
    \E r \in Reqs :
        /\ Done(r)
        /\ DidWith(r, "get", "ok")
        /\ DidWith(r, "fetch", "throw")
        /\ NumOps(r, "fetch") = 1

\* --------------------------------------------------------------- C13
\* The request b read from the cache the record that the request a issued
\* (codes are unique, so the code tells which record it is).
ReadRecordOf(b, a) ==
    /\ a # b
    /\ Done(a) /\ DidWith(a, "put", "ok")
    /\ req[a].resp.status = 200 /\ ~req[a].resp.cached
    /\ req[b].uuid = req[a].uuid
    /\ req[b].cachedData # NoData
    /\ req[b].cachedData.code = req[a].resp.code

\* C13: a record stored by a successful issuance and read back by a later
\* request with the same identifier before its TTL elapses has the uuid, code
\* and expiresAt that the issuing request returned and the createdAt that it
\* stored; and as long as the cache holds the record of the last put, a read
\* yields exactly the record that request built.
C13_RoundTrip ==
    /\ \A a, b \in Reqs :
          ReadRecordOf(b, a) =>
              /\ req[b].cachedData.uuid = req[a].resp.uuid
              /\ req[b].cachedData.code = req[a].resp.code
              /\ req[b].cachedData.expiresAt = req[a].resp.expiresAt
              /\ req[b].cachedData.createdAt = req[a].inviteData.createdAt
              /\ req[b].resp.cached =>
                    /\ req[b].resp.uuid = req[a].resp.uuid
                    /\ req[b].resp.expiresAt = req[a].resp.expiresAt
    /\ \A a \in Reqs :
          (/\ Done(a) /\ DidWith(a, "put", "ok")
           /\ KvRead(KvKey(req[a].uuid)).code = req[a].inviteData.code) =>
              KvRead(KvKey(req[a].uuid)) = req[a].inviteData

\* A request was served from the cache the record another request had issued
\* and stored 100,000 ms before.
C13_Witness ==
    \E a, b \in Reqs :
        /\ ReadRecordOf(b, a)
        /\ Done(b) /\ req[b].resp.cached
        /\ req[b].now = req[a].now + 100000
        /\ req[b].cachedData = req[a].inviteData

\* --------------------------------------------------------------- C14
\* C14 as claimed: the TTL of every cache entry is the whole number of
\* seconds that remained until its record's expiresAt at the moment it was
\* stored, so that the entry does not outlive expiresAt.
C14_Original ==
    \A k \in DOMAIN kv :
        /\ kv[k].expirationTtl =
              (JsonParse(kv[k].value).expiresAt - kv[k].writtenAt) \div MsPerSecond
        /\ KvExpiration(kv[k]) <= JsonParse(kv[k].value).expiresAt

\* --------------------------------------------------------------- C15
\* The request was answered by the CORS check (403 Forbidden), the honeypot
\* check (400 Invalid request) or the user-agent check (403 Invalid request).
RejectedAtBoundary(r) ==
    /\ req[r].pc = "done"
    /\ \/ req[r].resp = ErrorResp(403, "Forbidden", FALSE)
       \/ req[r].resp = ErrorResp(400, "Invalid request", FALSE)
       \/ req[r].resp = ErrorResp(403, "Invalid request", FALSE)

\* C15: a request rejected by the CORS check, the honeypot check or the
\* user-agent check performs no cache get, delete or put and no upstream
\* call, and the step that rejects it leaves the cache unchanged.
C15_RejectionNoSideEffects ==
    [][\A r \in Reqs :
          /\ RejectedAtBoundary(r)' => req'[r].ops = <<>>
          /\ (~RejectedAtBoundary(r) /\ RejectedAtBoundary(r)') =>
                /\ kv' = kv
                /\ req[r].pc = "idle"
                /\ \A q \in Reqs \ {r} : req'[q] = req[q]]_vars

\* With a record in the cache, a request was rejected by the honeypot check.
C15_Witness ==
    \E r \in Reqs :
        /\ RejectedAtBoundary(r)
        /\ req[r].resp.status = 400
        /\ DOMAIN kv # {}

\* --------------------------------------------------------------- C16
\* The place of an operation in the order get, delete, fetch, put.
OpRank(op) ==
    CASE op = "get" -> 1
      [] op = "delete" -> 2
      [] op = "fetch" -> 3
      [] op = "put" -> 4

\* The operation the request is suspended in, if any.
Outstanding(r) == IF req[r].pc \in {"get", "delete", "fetch", "put"} THEN {req[r].pc} ELSE {}

\* C16: the operations of a request occur strictly in the order cache get,
\* cache delete (only after a lookup that returned a record failing the
\* validity check), upstream call, cache put, each at most once and one at a
\* time: the operation a request is suspended in comes after all those it
\* has completed; the cache put happens only after the upstream call has
\* returned success with a code.
C16_IoOrder ==
    \A r \in Reqs :
        /\ \A i, j \in 1..Len(req[r].ops) :
              i < j => OpRank(req[r].ops[i][1]) < OpRank(req[r].ops[j][1])
        /\ \A op \in Outstanding(r) : \A i \in 1..Len(req[r].ops) :
              OpRank(req[r].ops[i][1]) < OpRank(op)
        /\ (Did(r, "delete") \/ req[r].pc = "delete") =>
              /\ DidWith(r, "get", "ok")
              /\ ReadStale(r)
        /\ (Did(r, "put") \/ req[r].pc = "put") =>
              /\ DidWith(r, "fetch", "ok")
              /\ Truthy(req[r].inviteData.code)
        /\ (Did(r, "fetch") \/ req[r].pc = "fetch") =>
              (ReadStale(r) => Did(r, "delete"))
        /\ Done(r) => Outstanding(r) = {}

\* A request went through all four operations.
C16_Witness ==
    \E r \in Reqs :
        /\ Done(r)
        /\ Len(req[r].ops) = 4
        /\ req[r].ops[1][1] = "get" /\ req[r].ops[2][1] = "delete"
        /\ req[r].ops[3][1] = "fetch" /\ req[r].ops[4][1] = "put"

\* --------------------------------------------------------------- C17
\* The upstream call of the request, or the reading of its response, threw.
IssuanceThrew(r) ==
    \/ DidWith(r, "fetch", "throw")
    \/ DidWith(r, "fetch", "jsonthrow")
    \/ DidWith(r, "fetch", "textthrow")

\* C17: if the upstream call or the parsing of its response throws, the
\* request answers 500 with the generic error body, which has no details
\* field, performs no cache put and makes no second upstream call.
C17_UnexpectedFault ==
    /\ \A r \in Reqs :
          IssuanceThrew(r) =>
              /\ Done(r)
              /\ req[r].resp = ErrorResp(500, "Internal server error", FALSE)
              /\ ~req[r].resp.details
              /\ ~Did(r, "put")
              /\ NumOps(r, "fetch") = 1
              /\ req[r].ops[Len(req[r].ops)][1] = "fetch"
              /\ req[r].inviteData = NoData

\* A request that found a stale record and deleted it answered the generic
\* 500 because the body of the upstream's answer could not be parsed.
C17_Witness ==
    \E r \in Reqs :
        /\ Done(r)
        /\ DidWith(r, "delete", "ok")
        /\ DidWith(r, "fetch", "jsonthrow")
        /\ req[r].resp.status = 500

\* --------------------------------------------------------------- C18
\* The step in which the cache delete of the request takes effect.
DeleteStep(r) ==
    /\ req[r].pc = "delete"
    /\ req'[r].pc = "fetch"
    /\ req'[r].ops = Append(req[r].ops, <<"delete", "ok">>)

\* The record stored under the identifier of r (NoData if none).
StoredFor(r) ==
    IF KvKey(req[r].uuid) \in DOMAIN kv
    THEN JsonParse(kv[KvKey(req[r].uuid)].value)
    ELSE NoData

\* C18 as claimed: in every interleaving of requests for one identifier, the
\* entry stored under the identifier at the moment of a cache delete has
\* 10,000 ms or less of remaining life.
C18_Original ==
    [][\A r \in Reqs :
          (DeleteStep(r) /\ StoredFor(r) # NoData) =>
              StoredFor(r).expiresAt - clock <= ValidityBufferMs]_vars

\* C18 amended: a cache delete is performed only by a request whose own
\* lookup returned a record with 10,000 ms or less of remaining life; when no
\* other request for the identifier overlaps it between its lookup and its
\* delete, the entry removed is that record (if it is still there), which has
\* 10,000 ms or less remaining at the moment of the delete.
C18_DeleteAfterStaleRead ==
    [][\A r \in Reqs :
          DeleteStep(r) =>
              /\ ReadStale(r)
              /\ KvKey(req[r].uuid) \notin DOMAIN kv'
              /\ (r \notin hist.raced /\ StoredFor(r) # NoData) =>
                    /\ StoredFor(r) = req[r].cachedData
                    /\ StoredFor(r).expiresAt - clock <= ValidityBufferMs]_vars

\* A request that overlaps no other has deleted the stale record it read,
\* before the TTL of the entry ran out.
C18_Witness ==
    \E r \in Reqs :
        /\ req[r].pc = "fetch"
        /\ req[r].ops = << <<"get", "ok">>, <<"delete", "ok">> >>
        /\ ReadStale(r)
        /\ r \notin hist.raced
        /\ clock < req[r].cachedData.expiresAt
        /\ StoredFor(r) = NoData

SpecLive == Spec /\ \A r \in Reqs : WF_vars(Step(r))

\* The request is past the checks of lines 11-62 and has not answered yet.
InFlight(r) == req[r].pc \notin {"idle", "done"}

\* The statuses a request can answer with.
AnswerStatuses ==
    {200, 400, 403, 500} \cup {s \in UpstreamStatuses : ~ResponseOk(s)}

\* C20: provided each cache operation and the upstream call eventually
\* returns or fails, every started request eventually answers; it answers
\* once (the response is set in the step that ends the request and never
\* changed), with status 200, 400, 403, 500 or the upstream status, and
\* performs no cache or upstream operation after answering.
C20_Terminates ==
    /\ \A r \in Reqs : InFlight(r) ~> Done(r)
    /\ [](\A r \in Reqs :
            /\ Done(r) <=> req[r].resp # NoResp
            /\ Done(r) => req[r].resp.status \in AnswerStatuses)
    /\ [][\A r \in Reqs :
            /\ req'[r].resp # req[r].resp =>
                  \/ req[r].resp = NoResp /\ req'[r].pc = "done"
                  \/ req'[r] = IdleReq
            /\ Done(r) =>
                  \/ req'[r] = req[r]
                  \/ req'[r] = IdleReq /\ kv' = kv]_vars

\* A request has answered after all four of its operations.
C20_Witness ==
    \E r \in Reqs :
        /\ Done(r)
        /\ Len(req[r].ops) = 4
        /\ DidWith(r, "put", "throw")
        /\ req[r].resp.status = 200

====
